---------------------------- MODULE Spec2Model ----------------------------
(***************************************************************************)
(* BrainDump (src/braindump.py): a single-user note and attachment store.  *)
(* The model holds the SQLite table "entries", the attachment directory    *)
(* FILES_DIR, the wall clock, the input widgets, the list view (tree) and  *)
(* the entry shown in the display pane, the message boxes of the last       *)
(* handler, and one action per event handler.  Three more variables hold  *)
(* the position of the process (pc: the steps of __init__, the main loop,  *)
(* the end), the connection (conn) and the columns of the table (table).   *)
(*                                                                         *)
(* Text is a sequence of one-character strings.  A path is a directory     *)
(* token followed by the characters of the base name.                      *)
(***************************************************************************)
EXTENDS Integers, Sequences, FiniteSets, TLC

VARIABLES entries, seq, files, clock, note_text, tag_entry, search_entry,
          tag_filter_entry, tree, displayed, shown, pc, conn, table

vars == <<entries, seq, files, clock, note_text, tag_entry, search_entry,
          tag_filter_entry, tree, displayed, shown, pc, conn, table>>

(***************************************************************************)
(* Bounds of the model.                                                    *)
(***************************************************************************)
\* ids handed out by AUTOINCREMENT in one run of the model
MaxId == 3
\* seconds the wall clock advances
MaxClock == 1

(***************************************************************************)
(* Program constants.                                                      *)
(***************************************************************************)
FILES_DIR == "~/BrainDumpApp/files/"
PreviewLen == 50
\* SQL NULL: a value that is no text
NULL == <<"NULL">>
valid_image_extensions ==
    { <<".", "p", "n", "g">>, <<".", "j", "p", "g">>, <<".", "j", "p", "e", "g">>,
      <<".", "b", "m", "p">>, <<".", "g", "i", "f">> }

(***************************************************************************)
(* The environment: files outside the application, what the user types,    *)
(* what the clipboard holds, which writes fail.                            *)
(***************************************************************************)
APng == <<"a", ".", "p", "n", "g">>
\* external files: path -> bytes
ExtFiles == (<<"/ext1/">> \o APng :> "bytes1") @@ (<<"/ext2/">> \o APng :> "bytes2")

\* what the user may have typed into the note box and the tag box
Blank    == [note |-> <<>>, tags |-> <<>>]
Spaces   == [note |-> <<" ">>, tags |-> <<>>]
NoteA    == [note |-> <<" ", "A">>, tags |-> <<"W", " ">>]

\* notes for the list view: 51 characters on one line, 50 characters on one
\* line, two lines with a carriage return in the first
Long51     == [note |-> [i \in 1..(PreviewLen + 1) |-> IF i <= PreviewLen THEN "x" ELSE "y"],
               tags |-> <<>>]
Fifty      == [note |-> [i \in 1..PreviewLen |-> "x"], tags |-> <<>>]
CrTwoLines == [note |-> <<"A", "\r", "B", "\n", "C">>, tags |-> <<>>]

\* what the clipboard may hold: what ImageGrab.grabclipboard() gives (image
\* data, or nothing) and what clipboard_get() gives (a text, or nothing):
\* image data, a quoted path to an image file, plain text, nothing, or image
\* data together with the path
ClipImage == [image |-> "pixels", text |-> <<>>]
ClipPath  == [image |-> "none", text |-> <<"\"", "/ext1/">> \o APng \o <<"\"">>]
ClipText  == [image |-> "none", text |-> <<" ", "A">>]
ClipEmpty == [image |-> "none", text |-> <<>>]
ClipBoth  == [image |-> "pixels", text |-> <<"\"", "/ext1/">> \o APng \o <<"\"">>]

\* An environment E names what the user and the machine may do:
\*   forms      what the user types into the note and tag boxes
\*   paths      what the file dialog returns (<<>>: cancelled)
\*   clips      what the clipboard holds
\*   searches   what the user types into the search box
\*   tagfilters what the user types into the tag filter box
\*   write      how writing a file may end ("ok", "fail")
\*   rm         whether os.remove may succeed
\*   db         whether an INSERT or DELETE may succeed
\* The note environment: notes typed and saved, no file ever chosen.
EnvNote ==
    [forms      |-> {Spaces, NoteA},
     paths      |-> {<<>>},
     clips      |-> {ClipEmpty},
     searches   |-> {<<>>},
     tagfilters |-> {<<>>},
     write      |-> {"ok"},
     rm         |-> {TRUE},
     db         |-> BOOLEAN]

\* The file environment: files captured with nothing typed, copies that fail.
EnvFile ==
    [forms      |-> {Blank},
     paths      |-> DOMAIN ExtFiles \cup {<<>>},
     clips      |-> {ClipPath, ClipEmpty},
     searches   |-> {<<>>},
     tagfilters |-> {<<>>},
     write      |-> {"ok", "fail"},
     rm         |-> {TRUE},
     db         |-> {TRUE}]

\* The delete environment: entries captured without failure, deletions that fail.
EnvDelete ==
    [forms      |-> {Blank},
     paths      |-> {<<"/ext1/">> \o APng},
     clips      |-> {ClipEmpty},
     searches   |-> {<<>>},
     tagfilters |-> {<<>>},
     write      |-> {"ok"},
     rm         |-> BOOLEAN,
     db         |-> BOOLEAN]

\* The clipboard environment: image data and plain text pasted, saves that fail.
EnvPaste ==
    [forms      |-> {Blank, NoteA},
     paths      |-> {<<>>},
     clips      |-> {ClipImage, ClipText, ClipEmpty},
     searches   |-> {<<>>},
     tagfilters |-> {<<>>},
     write      |-> {"ok", "fail"},
     rm         |-> {TRUE},
     db         |-> BOOLEAN]

\* The preview environment: a database of earlier runs is listed, nothing is
\* captured.
EnvPreview ==
    [forms      |-> {Blank},
     paths      |-> {<<>>},
     clips      |-> {ClipEmpty},
     searches   |-> {<<>>},
     tagfilters |-> {<<>>},
     write      |-> {"ok"},
     rm         |-> {TRUE},
     db         |-> {TRUE}]

\* The capture environment: a note, a file chosen, and the clipboard with image
\* data, with a path, with text; every write succeeds.
EnvCapture ==
    [forms      |-> {NoteA},
     paths      |-> {<<"/ext1/">> \o APng},
     clips      |-> {ClipImage, ClipPath, ClipText, ClipBoth},
     searches   |-> {<<>>},
     tagfilters |-> {<<>>},
     write      |-> {"ok"},
     rm         |-> {TRUE},
     db         |-> {TRUE}]

\* The startup environment: as the others, and
\*   dirs       whether os.makedirs may succeed
\*   open       how opening the database may end: "ok", "connect" (connect
\*              fails), "execute" (CREATE TABLE fails)
EnvBoot ==
    [forms      |-> {NoteA},
     paths      |-> {<<"/ext1/">> \o APng},
     clips      |-> {ClipEmpty},
     searches   |-> {<<>>},
     tagfilters |-> {<<>>},
     write      |-> {"ok"},
     rm         |-> {TRUE},
     db         |-> {TRUE},
     dirs       |-> BOOLEAN,
     open       |-> {"ok", "connect", "execute"}]

\* The restart environment: every start succeeds; notes and files are captured.
EnvRestart ==
    [forms      |-> {NoteA},
     paths      |-> {<<"/ext1/">> \o APng},
     clips      |-> {ClipEmpty},
     searches   |-> {<<>>},
     tagfilters |-> {<<>>},
     write      |-> {"ok"},
     rm         |-> {TRUE},
     db         |-> {TRUE},
     dirs       |-> {TRUE},
     open       |-> {"ok"}]

\* The list environment: captures that succeed, the list filtered.
EnvList ==
    [forms      |-> {Blank, NoteA},
     paths      |-> {<<"/ext1/">> \o APng},
     clips      |-> {ClipEmpty},
     searches   |-> {<<>>, <<"_">>, <<"P">>},
     tagfilters |-> {<<>>, <<"_">>, <<"W">>},
     write      |-> {"ok"},
     rm         |-> {TRUE},
     db         |-> {TRUE}]

(***************************************************************************)
(* Python and Tk text operations.                                          *)
(***************************************************************************)
Whitespace == {" ", "\n", "\r", "\t"}

RECURSIVE lstrip(_)
lstrip(s) == IF s # <<>> /\ Head(s) \in Whitespace THEN lstrip(Tail(s)) ELSE s

RECURSIVE rstrip(_)
rstrip(s) ==
    IF s # <<>> /\ s[Len(s)] \in Whitespace THEN rstrip(SubSeq(s, 1, Len(s) - 1)) ELSE s

\* str.strip()
strip(s) == rstrip(lstrip(s))

RECURSIVE lstripq(_)
lstripq(s) == IF s # <<>> /\ Head(s) = "\"" THEN lstripq(Tail(s)) ELSE s

RECURSIVE rstripq(_)
rstripq(s) ==
    IF s # <<>> /\ s[Len(s)] = "\"" THEN rstripq(SubSeq(s, 1, Len(s) - 1)) ELSE s

\* str.strip('"')
strip_quotes(s) == rstripq(lstripq(s))

LowerChar(c) ==
    CASE c = "A" -> "a"
      [] c = "B" -> "b"
      [] c = "W" -> "w"
      [] c = "P" -> "p"
      [] c = "N" -> "n"
      [] c = "G" -> "g"
      [] OTHER -> c

\* str.lower()
lower(s) == [i \in 1..Len(s) |-> LowerChar(s[i])]

\* Text.get("1.0", tk.END): the widget's text and the newline Tk ends it with
TextGet(w) == w \o <<"\n">>

\* s in t, for texts
Contains(t, s) ==
    \E i \in 0..(Len(t) - Len(s)) : SubSeq(t, i + 1, i + Len(s)) = s

\* t.endswith(s)
EndsWith(t, s) ==
    Len(s) <= Len(t) /\ SubSeq(t, Len(t) - Len(s) + 1, Len(t)) = s

(***************************************************************************)
(* Paths.                                                                  *)
(***************************************************************************)
\* os.path.join(FILES_DIR, filename)
join(filename) == <<FILES_DIR>> \o filename

\* os.path.basename(path)
basename(path) == Tail(path)

\* the index of the last "." of a name that is preceded by a character other
\* than "."; 0 when there is none (os.path.splitext ignores leading dots)
ExtAt(name) ==
    LET dots == { i \in 1..Len(name) :
                    name[i] = "." /\ \E j \in 1..(i - 1) : name[j] # "." }
    IN  IF dots = {} THEN 0
        ELSE CHOOSE i \in dots : \A j \in dots : j <= i

\* os.path.splitext(filename)
splitext(name) ==
    IF ExtAt(name) = 0 THEN <<name, <<>>>>
    ELSE <<SubSeq(name, 1, ExtAt(name) - 1), SubSeq(name, ExtAt(name), Len(name))>>

\* datetime.datetime.now().strftime("%Y%m%d%H%M%S"): one text per second
strftime(now) == <<ToString(now)>>

\* os.path.exists(path), with fs the content of FILES_DIR
exists(path, fs) ==
    /\ path # <<>>
    /\ IF Head(path) = FILES_DIR THEN Tail(path) \in DOMAIN fs
       ELSE path \in DOMAIN ExtFiles


(***************************************************************************)
(* SQLite.                                                                 *)
(***************************************************************************)
\* x LIKE pattern, both texts: "%" matches any run of characters, "_" any one
\* character, and letters compare without case (the model's letters are ASCII)
RECURSIVE Like(_, _)
Like(pattern, x) ==
    IF pattern = <<>> THEN x = <<>>
    ELSE IF Head(pattern) = "%"
         THEN \E k \in 0..Len(x) : Like(Tail(pattern), SubSeq(x, k + 1, Len(x)))
         ELSE /\ x # <<>>
              /\ Head(pattern) = "_" \/ LowerChar(Head(pattern)) = LowerChar(Head(x))
              /\ Like(Tail(pattern), Tail(x))

\* column LIKE ? as a WHERE condition: NULL LIKE ? is not true
SqlLike(column, pattern) == column # NULL /\ Like(pattern, column)

\* the WHERE clause load_entries builds from the two filter terms
Where(row, search_term, tag_filter_term) ==
    /\ search_term # <<>> =>
          \/ SqlLike(row.content, <<"%">> \o search_term \o <<"%">>)
          \/ SqlLike(row.description, <<"%">> \o search_term \o <<"%">>)
    /\ tag_filter_term # <<>> =>
          SqlLike(row.tags, <<"%">> \o tag_filter_term \o <<"%">>)

\* whether SELECT ... WHERE id = ? finds a row
Found(rs, id) == \E r \in rs : r.id = id

\* SELECT ... WHERE id = ?, fetchone(): the row, or NULL
get_entry(rs, id) ==
    IF Found(rs, id) THEN CHOOSE r \in rs : r.id = id ELSE NULL

\* ORDER BY timestamp ASC
RECURSIVE OrderByAscending(_)
OrderByAscending(rs) ==
    IF rs = {} THEN { <<>> }
    ELSE UNION { { <<r.id>> \o s : s \in OrderByAscending(rs \ {r}) } :
                 r \in { r \in rs : \A q \in rs : q.timestamp >= r.timestamp } }

\* ORDER BY timestamp DESC: every order of the ids of the rows in which no row
\* comes before a row with a later timestamp; SQLite leaves the order of rows
\* with equal timestamps open
RECURSIVE OrderBy(_)
OrderBy(rs) ==
    IF rs = {} THEN { <<>> }
    ELSE UNION { { <<r.id>> \o s : s \in OrderBy(rs \ {r}) } :
                 r \in { r \in rs : \A q \in rs : q.timestamp <= r.timestamp } }

(***************************************************************************)
(* The list view.                                                          *)
(***************************************************************************)
\* s.split('\n')[0] without .replace('\r', '')
FirstLine_with_cr(s) ==
    LET nl   == { i \in 1..Len(s) : s[i] = "\n" }
        stop == IF nl = {} THEN Len(s) + 1 ELSE CHOOSE i \in nl : \A j \in nl : i <= j
    IN  SubSeq(s, 1, stop - 1)

\* s.split('\n')[0].replace('\r', '')
FirstLine(s) ==
    LET nl   == { i \in 1..Len(s) : s[i] = "\n" }
        stop == IF nl = {} THEN Len(s) + 1 ELSE CHOOSE i \in nl : \A j \in nl : i <= j
    IN  SelectSeq(SubSeq(s, 1, stop - 1), LAMBDA c : c # "\r")

\* the preview column of a row
Preview(row) ==
    IF row.type = "note"
    THEN LET first == FirstLine(row.content)
             cut   == SubSeq(first, 1, IF Len(first) < PreviewLen THEN Len(first) ELSE PreviewLen)
         IN  IF Len(row.content) > PreviewLen \/ Contains(row.content, <<"\n">>)
             THEN cut \o <<".", ".", ".">>
             ELSE cut
    ELSE row.content

\* str.capitalize() of the type column
Capitalize(type) == IF type = "note" THEN "Note" ELSE "File"

\* strptime(timestamp, '%Y-%m-%d %H:%M:%S').strftime('%Y-%m-%d %H:%M')
SecondsPerMinute == 60
ts_date(timestamp) == timestamp \div SecondsPerMinute

TreeItem(row) ==
    [iid |-> row.id, values |-> <<ts_date(row.timestamp), Capitalize(row.type), Preview(row)>>]

\* load_entries: the trees the query can fill, for table rs and the texts of
\* the search box and the tag filter box
load_entries(rs, search_box, tag_filter_box) ==
    LET search_term     == strip(search_box)
        tag_filter_term == lower(strip(tag_filter_box))
        selected        == { r \in rs : Where(r, search_term, tag_filter_term) }
    IN  { [i \in 1..Len(s) |-> TreeItem(get_entry(rs, s[i]))] : s \in OrderBy(selected) }

(***************************************************************************)
(* The table and the attachment directory.                                 *)
(***************************************************************************)
\* INTEGER PRIMARY KEY without AUTOINCREMENT: one more than the largest id
\* stored
lastrowid_of_stored(rs, s) ==
    IF rs = {} THEN 1 ELSE (CHOOSE r \in rs : \A q \in rs : q.id <= r.id).id + 1

\* INTEGER PRIMARY KEY AUTOINCREMENT: the id of a new row is one more than the
\* largest id the table ever held, which sqlite_sequence keeps (s)
lastrowid(rs, s) == s + 1

\* INSERT INTO entries (type, content, tags): filepath and description are
\* NULL, timestamp is CURRENT_TIMESTAMP
NoteRow(id, content, tags, now) ==
    [id |-> id, type |-> "note", content |-> content, tags |-> tags,
     filepath |-> NULL, timestamp |-> now, description |-> NULL]

\* INSERT INTO entries (type, content, tags, filepath, description)
FileRow(id, filename, tags, new_filepath, description, now) ==
    [id |-> id, type |-> "file", content |-> filename, tags |-> tags,
     filepath |-> new_filepath, timestamp |-> now, description |-> description]


\* the directory fs after writing bytes under name with the given outcome
Write(fs, name, bytes, outcome) ==
    IF outcome = "ok" THEN (name :> bytes) @@ fs ELSE fs

\* os.remove left out: the file stays
Remove_kept(fs, name) == fs

\* os.remove(path) of a file of FILES_DIR
Remove(fs, name) == [n \in DOMAIN fs \ {name} |-> fs[n]]

\* the path copy_file_to_storage copies to: FILES_DIR/filename, or when that
\* exists FILES_DIR/<base>_<timestamp><ext>
Destination(filename, fs, now) ==
    IF exists(join(filename), fs)
    THEN join(splitext(filename)[1] \o <<"_">> \o strftime(now) \o splitext(filename)[2])
    ELSE join(filename)

\* copy_file_to_storage without the copy: the path given is the path returned
copy_keeps_original(filepath, filename, fs, now, outcome) ==
    [path |-> IF outcome = "ok" THEN filepath ELSE NULL, fs |-> fs]

\* copy_file_to_storage returning the path after a failed copy as well
copy_returns_path(filepath, filename, fs, now, outcome) ==
    [path |-> Destination(filename, fs, now),
     fs   |-> Write(fs, basename(Destination(filename, fs, now)), ExtFiles[filepath], outcome)]

\* copy_file_to_storage: the path returned (NULL after a failure) and the
\* directory afterwards
copy_file_to_storage(filepath, filename, fs, now, outcome) ==
    [path |-> IF outcome = "ok" THEN Destination(filename, fs, now) ELSE NULL,
     fs   |-> Write(fs, basename(Destination(filename, fs, now)), ExtFiles[filepath], outcome)]

\* the name save_pasted_image_data saves under
PasteName(now) ==
    <<"p", "a", "s", "t", "e", "_">> \o strftime(now) \o <<".", "p", "n", "g">>

\* add_note without .strip() on the text of the note box
note_content_unstripped(w) == TextGet(w)

\* the content add_note saves
note_content(w) == strip(TextGet(w))

\* the tags saved without .lower()
tags_not_lowered(w) == strip(w)

\* the tags every capture action saves
tags_of(w) == lower(strip(w))

(***************************************************************************)
(* The state after __init__ on a new database.                             *)
(***************************************************************************)
Init ==
    /\ entries = {}
    /\ seq = 0
    /\ files = <<>>
    /\ clock = 0
    /\ note_text = <<>>
    /\ tag_entry = <<>>
    /\ search_entry = <<>>
    /\ tag_filter_entry = <<>>
    /\ tree = <<>>
    /\ displayed = 0
    /\ shown = <<>>
    /\ pc = "mainloop"
    /\ conn = "open"
    /\ table = "new"

(***************************************************************************)
(* The user and the clock.                                                 *)
(***************************************************************************)
Tick ==
    /\ clock < MaxClock
    /\ clock' = clock + 1
    /\ UNCHANGED <<pc, conn, table, entries, seq, files, note_text, tag_entry, search_entry,
                   tag_filter_entry, tree, displayed, shown>>

\* the user fills in the note box and the tag box
EditForm(E) ==
    \E f \in E.forms :
        /\ note_text' = f.note
        /\ tag_entry' = f.tags
        /\ UNCHANGED <<pc, conn, table, entries, seq, files, clock, search_entry,
                       tag_filter_entry, tree, displayed, shown>>

\* <KeyRelease> in the search box: load_entries
EditSearch(E) ==
    \E t \in E.searches :
        /\ search_entry' = t
        /\ tree' \in load_entries(entries, t, tag_filter_entry)
        /\ shown' = <<>>
        /\ UNCHANGED <<pc, conn, table, entries, seq, files, clock, note_text, tag_entry,
                       tag_filter_entry, displayed>>

\* <KeyRelease> in the tag filter box: load_entries
EditTagFilter(E) ==
    \E t \in E.tagfilters :
        /\ tag_filter_entry' = t
        /\ tree' \in load_entries(entries, search_entry, t)
        /\ shown' = <<>>
        /\ UNCHANGED <<pc, conn, table, entries, seq, files, clock, note_text, tag_entry,
                       search_entry, displayed>>

(***************************************************************************)
(* The handlers.                                                           *)
(***************************************************************************)
\* the tail the capture handlers share after a successful INSERT: commit,
\* clear the two input boxes, load_entries
Inserted(row) ==
    /\ entries' = entries \cup {row}
    /\ seq' = row.id
    /\ note_text' = <<>>
    /\ tag_entry' = <<>>
    /\ tree' \in load_entries(entries', search_entry, tag_filter_entry)
    /\ shown' = <<>>
    /\ UNCHANGED <<pc, conn, table, clock, search_entry, tag_filter_entry, displayed>>

\* a handler that returns after showing msgs, the table untouched
Returned(msgs) ==
    /\ shown' = msgs
    /\ UNCHANGED <<pc, conn, table, entries, seq, clock, note_text, tag_entry, search_entry,
                   tag_filter_entry, tree, displayed>>

add_note(E) ==
    /\ seq < MaxId
    /\ \E dbOk \in E.db :
        LET content == note_content(note_text)
            tags    == tags_of(tag_entry)
        IN  IF content = <<>>
            THEN Returned(<<"Empty Note">>) /\ UNCHANGED files
            ELSE IF dbOk
                 THEN Inserted(NoteRow(lastrowid(entries, seq), content, tags, clock))
                      /\ UNCHANGED files
                 ELSE Returned(<<"Database Error: Failed to save note">>) /\ UNCHANGED files

\* the part add_file and the image-path branch of paste_from_clipboard share:
\* copy the file, then INSERT
StoreFile(filepath, outcome, dbOk) ==
    LET tags        == tags_of(tag_entry)
        description == strip(TextGet(note_text))
        filename    == basename(filepath)
        copied      == copy_file_to_storage(filepath, filename, files, clock, outcome)
    IN  /\ files' = copied.fs
        /\ IF copied.path = NULL
           THEN Returned(<<"File Error: Failed to copy file">>)
           ELSE IF dbOk
                THEN Inserted(FileRow(lastrowid(entries, seq), filename, tags, copied.path, description, clock))
                ELSE Returned(<<"Database Error: Failed to save file reference">>)

add_file(E) ==
    /\ seq < MaxId
    /\ \E filepath \in E.paths, outcome \in E.write, dbOk \in E.db :
        IF filepath = <<>>
        THEN Returned(<<>>) /\ UNCHANGED files
        ELSE StoreFile(filepath, outcome, dbOk)

\* note_text.insert(tk.INSERT, text): the text put in at the cursor
Insert(w, at, text) == SubSeq(w, 1, at) \o text \o SubSeq(w, at + 1, Len(w))

save_pasted_image_data(im, outcome, dbOk) ==
    LET tags         == tags_of(tag_entry)
        description  == strip(TextGet(note_text))
        filename     == PasteName(clock)
        new_filepath == join(filename)
    IN  /\ files' = Write(files, filename, im, outcome)
        /\ IF outcome # "ok"
           THEN Returned(<<"File Error: Failed to save pasted image">>)
           ELSE IF dbOk
                THEN Inserted(FileRow(lastrowid(entries, seq), filename, tags, new_filepath, description, clock))
                ELSE Returned(<<"Database Error: Failed to save image reference">>)

\* paste_from_clipboard looking at the text before the image data
PasteWith_text_first(E, clip, outcome, dbOk) ==
    LET cleaned_path == strip_quotes(strip(clip.text))
    IN  IF /\ exists(cleaned_path, files)
           /\ \E ext \in valid_image_extensions : EndsWith(lower(cleaned_path), ext)
        THEN StoreFile(cleaned_path, outcome, dbOk)
        ELSE IF clip.image # "none"
        THEN save_pasted_image_data(clip.image, outcome, dbOk)
        ELSE IF clip.text = <<>>
        THEN Returned(<<"Clipboard Empty">>) /\ UNCHANGED files
        ELSE /\ \E at \in 0..Len(note_text) :
                   /\ Insert(note_text, at, clip.text) \in { f.note : f \in E.forms }
                   /\ note_text' = Insert(note_text, at, clip.text)
             /\ shown' = <<>>
             /\ UNCHANGED <<pc, conn, table, entries, seq, files, clock, tag_entry,
                            search_entry, tag_filter_entry, tree, displayed>>

\* paste_from_clipboard with the clipboard clip and the outcomes of the file
\* write and of the INSERT.  Pillow is installed.  Pasted text is put into the
\* note box when the draft it makes is one of the environment's.
PasteWith(E, clip, outcome, dbOk) ==
    IF clip.image # "none"
    THEN save_pasted_image_data(clip.image, outcome, dbOk)
    ELSE IF clip.text = <<>>
    THEN Returned(<<"Clipboard Empty">>) /\ UNCHANGED files
    ELSE LET cleaned_path == strip_quotes(strip(clip.text))
         IN  IF /\ exists(cleaned_path, files)
                /\ \E ext \in valid_image_extensions : EndsWith(lower(cleaned_path), ext)
             THEN StoreFile(cleaned_path, outcome, dbOk)
             ELSE /\ \E at \in 0..Len(note_text) :
                        /\ Insert(note_text, at, clip.text) \in { f.note : f \in E.forms }
                        /\ note_text' = Insert(note_text, at, clip.text)
                  /\ shown' = <<>>
                  /\ UNCHANGED <<pc, conn, table, entries, seq, files, clock, tag_entry,
                                 search_entry, tag_filter_entry, tree, displayed>>

paste_from_clipboard(E) ==
    /\ seq < MaxId
    /\ \E clip \in E.clips, outcome \in E.write, dbOk \in E.db :
        PasteWith(E, clip, outcome, dbOk)

\* <<TreeviewSelect>>: the selected item of the tree is fetched and displayed
on_entry_select ==
    \E i \in 1..Len(tree) :
        LET entry_id == tree[i].iid
        IN  /\ displayed' = IF Found(entries, entry_id) THEN entry_id ELSE displayed
            /\ shown' = <<>>
            /\ UNCHANGED <<pc, conn, table, entries, seq, files, clock, note_text, tag_entry,
                           search_entry, tag_filter_entry, tree>>

\* the attachment step returning from the handler after an OSError
remove_attachment_returns(rs, fs, entry_id, rmOk) ==
    LET entry  == get_entry(rs, entry_id)
        remove == /\ Found(rs, entry_id)
                  /\ entry.type = "file"
                  /\ entry.filepath # NULL
                  /\ exists(entry.filepath, fs)
    IN  [fs      |-> IF remove /\ rmOk THEN Remove(fs, basename(entry.filepath)) ELSE fs,
         msgs    |-> IF remove /\ ~rmOk THEN <<"File Error: Failed to delete file">> ELSE <<>>,
         goes_on |-> ~(remove /\ ~rmOk)]

\* the attachment step of delete_entry: the directory and the message boxes
\* afterwards, and whether the handler goes on to the DELETE statement (an
\* OSError is caught and shown, and the handler goes on)
remove_attachment(rs, fs, entry_id, rmOk) ==
    LET entry  == get_entry(rs, entry_id)
        remove == /\ Found(rs, entry_id)
                  /\ entry.type = "file"
                  /\ entry.filepath # NULL
                  /\ exists(entry.filepath, fs)
    IN  [fs      |-> IF remove /\ rmOk THEN Remove(fs, basename(entry.filepath)) ELSE fs,
         msgs    |-> IF remove /\ ~rmOk THEN <<"File Error: Failed to delete file">> ELSE <<>>,
         goes_on |-> TRUE]

\* delete_entry(entry_id) with the answer to the confirmation box and the
\* outcomes of os.remove and of the DELETE statement
DeleteWith(entry_id, confirm, rmOk, dbOk) ==
    LET removed == remove_attachment(entries, files, entry_id, rmOk)
    IN  IF ~confirm
        THEN Returned(<<>>) /\ UNCHANGED files
        ELSE /\ files' = removed.fs
             /\ IF ~removed.goes_on
                THEN Returned(removed.msgs)
                ELSE IF dbOk
                THEN /\ entries' = { r \in entries : r.id # entry_id }
                     /\ tree' \in load_entries(entries', search_entry, tag_filter_entry)
                     /\ displayed' = 0
                     /\ shown' = removed.msgs
                     /\ UNCHANGED <<pc, conn, table, seq, clock, note_text, tag_entry, search_entry,
                                    tag_filter_entry>>
                ELSE /\ shown' = removed.msgs \o <<"Database Error: Failed to delete entry">>
                     /\ UNCHANGED <<pc, conn, table, entries, seq, clock, note_text, tag_entry,
                                    search_entry, tag_filter_entry, tree, displayed>>

\* the "Delete This Entry" button of the displayed entry
delete_entry(E) ==
    /\ displayed # 0
    /\ \E confirm \in BOOLEAN, rmOk \in E.rm, dbOk \in E.db :
        DeleteWith(displayed, confirm, rmOk, dbOk)

\* delete_entry(entry_id) as the operation it is: called with an id of the
\* caller's, stored or not
delete_entry_id(E) ==
    \E entry_id \in 1..MaxId, confirm \in BOOLEAN, rmOk \in E.rm, dbOk \in E.db :
        DeleteWith(entry_id, confirm, rmOk, dbOk)

NextIn(E) ==
    \/ Tick
    \/ EditForm(E)
    \/ EditSearch(E)
    \/ EditTagFilter(E)
    \/ add_note(E)
    \/ add_file(E)
    \/ paste_from_clipboard(E)
    \/ on_entry_select
    \/ delete_entry(E)

\* files captured, copies that fail
Next == NextIn(EnvFile)

Spec == Init /\ [][Next]_vars

\* notes typed and saved
NextNote == NextIn(EnvNote)

SpecNote == Init /\ [][NextNote]_vars

\* notes saved, and delete_entry called with any id
NextStore == NextIn(EnvNote) \/ delete_entry_id(EnvNote)

SpecStore == Init /\ [][NextStore]_vars

\* deletions that fail
NextDelete == NextIn(EnvDelete)

SpecDelete == Init /\ [][NextDelete]_vars

\* the clipboard pasted
NextPaste == NextIn(EnvPaste)

SpecPaste == Init /\ [][NextPaste]_vars

(***************************************************************************)
(* The program started on the database of earlier runs.                    *)
(***************************************************************************)
\* the state after __init__ on a database with table tb, AUTOINCREMENT
\* sequence s and attachment directory fs, at second now
InitWith(tb, s, fs, now) ==
    /\ entries = tb
    /\ seq = s
    /\ files = fs
    /\ clock = now
    /\ note_text = <<>>
    /\ tag_entry = <<>>
    /\ search_entry = <<>>
    /\ tag_filter_entry = <<>>
    /\ tree \in load_entries(tb, <<>>, <<>>)
    /\ displayed = 0
    /\ shown = <<>>
    /\ pc = "mainloop"
    /\ conn = "open"
    /\ table = "new"

\* the seconds of n rows saved one after the other
Stamps(n) ==
    { ts \in [1..n -> 0..MaxClock] : \A i, j \in 1..n : i <= j => ts[i] <= ts[j] }

\* the note add_note saves from form f, without id and second
SavedNote(f) ==
    [type |-> "note", content |-> note_content(f.note), tags |-> tags_of(f.tags),
     filepath |-> NULL, description |-> NULL]

\* what earlier runs saved under id: first the file add_file saves from
\* /ext1/a.png or the note of 51 characters, second the note of 50 characters
\* or the note of two lines, then notes of 51 characters
Saved(id) ==
    IF id = 1
    THEN { [type |-> "file", content |-> APng, tags |-> <<>>,
            filepath |-> join(APng), description |-> <<>>],
           SavedNote(Long51) }
    ELSE IF id = 2
    THEN { SavedNote(Fifty), SavedNote(CrTwoLines) }
    ELSE { SavedNote(Long51) }

\* the row of id saved at second now
RowAt(saved, id, now) ==
    [id |-> id, type |-> saved.type, content |-> saved.content, tags |-> saved.tags,
     filepath |-> saved.filepath, timestamp |-> now, description |-> saved.description]

\* the tables of n rows of earlier runs
SavedTables(n) ==
    { { RowAt(sv[i], i, ts[i]) : i \in 1..n } :
        sv \in { f \in [1..n -> UNION { Saved(i) : i \in 1..n }] : \A i \in 1..n : f[i] \in Saved(i) },
        ts \in Stamps(n) }

\* the attachment directory that goes with table tb
AttachmentsOf(tb) ==
    IF \E r \in tb : r.type = "file" THEN (APng :> ExtFiles[<<"/ext1/">> \o APng]) ELSE <<>>

\* the latest second of table tb
LatestOf(tb) ==
    IF tb = {} THEN 0 ELSE (CHOOSE r \in tb : \A q \in tb : q.timestamp <= r.timestamp).timestamp

InitPreview ==
    \E n \in 0..MaxId : \E tb \in SavedTables(n) :
        InitWith(tb, n, AttachmentsOf(tb), LatestOf(tb))

\* long notes listed
NextPreview == NextIn(EnvPreview)

SpecPreview == InitPreview /\ [][NextPreview]_vars

(***************************************************************************)
(* The start and the end of the process.                                   *)
(***************************************************************************)
\* rows of a table made before the description column was there
OldNote == [id |-> 1, type |-> "note", content |-> <<"A">>, tags |-> <<"w">>,
            filepath |-> NULL, timestamp |-> 0]
OldFile == [id |-> 1, type |-> "file", content |-> APng, tags |-> <<>>,
            filepath |-> join(APng), timestamp |-> 0]

\* the process starts: on no database, or on a database of an older version
\* with no row, a note or a file
Boot ==
    /\ \/ table = "none" /\ entries = {} /\ seq = 0 /\ files = <<>>
       \/ table = "old" /\ entries = {} /\ seq = 0 /\ files = <<>>
       \/ table = "old" /\ entries = {OldNote} /\ seq = 1 /\ files = <<>>
       \/ table = "old" /\ entries = {OldFile} /\ seq = 1
                        /\ files = (APng :> ExtFiles[<<"/ext1/">> \o APng])
    /\ clock = 0
    /\ note_text = <<>>
    /\ tag_entry = <<>>
    /\ search_entry = <<>>
    /\ tag_filter_entry = <<>>
    /\ tree = <<>>
    /\ displayed = 0
    /\ shown = <<>>
    /\ pc = "makedirs"
    /\ conn = "none"

\* setup_database, first try block: os.makedirs; after an OSError the message
\* box and root.quit(), and the method goes on
makedirs(E) ==
    /\ pc = "makedirs"
    /\ \E ok \in E.dirs :
          shown' = IF ok THEN shown
                   ELSE shown \o <<"Error: Failed to create app directories">>
    /\ pc' = "connect"
    /\ UNCHANGED <<entries, seq, files, clock, note_text, tag_entry, search_entry,
                   tag_filter_entry, tree, displayed, conn, table>>

\* ALTER TABLE entries ADD COLUMN description TEXT adding the column with ''
Migrate_empty_text(rs) ==
    { IF "description" \in DOMAIN r THEN r
      ELSE [id |-> r.id, type |-> r.type, content |-> r.content, tags |-> r.tags,
            filepath |-> r.filepath, timestamp |-> r.timestamp, description |-> <<>>] :
      r \in rs }

\* ALTER TABLE entries ADD COLUMN description TEXT: rows without the column
\* get it with NULL; "duplicate column name" is passed over
Migrate(rs) ==
    { IF "description" \in DOMAIN r THEN r
      ELSE [id |-> r.id, type |-> r.type, content |-> r.content, tags |-> r.tags,
            filepath |-> r.filepath, timestamp |-> r.timestamp, description |-> NULL] :
      r \in rs }

\* setup_database, second try block: connect, CREATE TABLE IF NOT EXISTS,
\* ALTER TABLE, commit; after an sqlite3.Error the message box and
\* root.quit(), and __init__ goes on
connect(E) ==
    /\ pc = "connect"
    /\ \E how \in E.open :
          /\ conn' = IF how = "connect" THEN "none" ELSE "open"
          /\ table' = IF how = "ok" THEN "new" ELSE table
          /\ entries' = IF how = "ok" THEN Migrate(entries) ELSE entries
          /\ shown' = IF how = "ok" THEN shown
                      ELSE shown \o <<"Database Error: Failed to initialize database">>
    /\ pc' = "load_entries"
    /\ UNCHANGED <<seq, files, clock, note_text, tag_entry, search_entry,
                   tag_filter_entry, tree, displayed>>

\* a message box of setup_database is among msgs
StartupFailed(msgs) ==
    \E i \in 1..Len(msgs) :
        msgs[i] \in { "Error: Failed to create app directories",
                      "Database Error: Failed to initialize database" }

\* the end of __init__: load_entries, and main goes on to root.mainloop().
\* Without a cursor load_entries raises AttributeError, which ends the
\* process.  Without a table the SELECT fails and a message box is shown.
\* After root.quit() in setup_database the main loop runs or returns at once.
first_load ==
    /\ pc = "load_entries"
    /\ IF conn = "none"
       THEN /\ pc' = "exited"
            /\ UNCHANGED <<tree, shown>>
       ELSE /\ IF table = "none"
               THEN /\ tree' = <<>>
                    /\ shown' = shown \o <<"Database Error: Failed to load entries">>
               ELSE /\ tree' \in load_entries(entries, search_entry, tag_filter_entry)
                    /\ shown' = shown
            /\ pc' \in IF StartupFailed(shown) THEN {"mainloop", "exited"} ELSE {"mainloop"}
    /\ UNCHANGED <<entries, seq, files, clock, note_text, tag_entry, search_entry,
                   tag_filter_entry, displayed, conn, table>>

\* WM_DELETE_WINDOW: the connection is closed, the window destroyed, and
\* mainloop returns
on_closing ==
    /\ pc = "mainloop"
    /\ pc' = "exited"
    /\ conn' = "none"
    /\ note_text' = <<>>
    /\ tag_entry' = <<>>
    /\ search_entry' = <<>>
    /\ tag_filter_entry' = <<>>
    /\ tree' = <<>>
    /\ displayed' = 0
    /\ shown' = <<>>
    /\ UNCHANGED <<entries, seq, files, clock, table>>

\* the program is started again
main ==
    /\ pc = "exited"
    /\ pc' = "makedirs"
    /\ conn' = "none"
    /\ note_text' = <<>>
    /\ tag_entry' = <<>>
    /\ search_entry' = <<>>
    /\ tag_filter_entry' = <<>>
    /\ tree' = <<>>
    /\ displayed' = 0
    /\ shown' = <<>>
    /\ UNCHANGED <<entries, seq, files, clock, table>>

\* the handlers run in the main loop; those of a program whose database was
\* not opened or has no table are left out
Ready == pc = "mainloop" /\ conn = "open" /\ table = "new"

\* the steps of a process from its start to its end
NextOf(E) ==
    \/ makedirs(E)
    \/ connect(E)
    \/ first_load
    \/ on_closing
    \/ main
    \/ Ready /\ Tick
    \/ Ready /\ EditForm(E)
    \/ Ready /\ EditSearch(E)
    \/ Ready /\ EditTagFilter(E)
    \/ Ready /\ add_note(E)
    \/ Ready /\ add_file(E)
    \/ Ready /\ paste_from_clipboard(E)
    \/ Ready /\ on_entry_select
    \/ Ready /\ delete_entry(E)

\* starts that fail
NextBoot == NextOf(EnvBoot)

SpecBoot == Boot /\ [][NextBoot]_vars

\* starts that succeed, with the migration of an older database
NextRestart == NextOf(EnvRestart)

\* the process starts on a database of an older version that holds a row
BootOld == Boot /\ entries # {}

SpecRestart == BootOld /\ [][NextRestart]_vars

\* started on a database in which an earlier run saved one entry and deleted it
InitCapture == InitWith({}, 1, <<>>, 0)

\* every way to capture
NextCapture == NextIn(EnvCapture)

SpecCapture == InitCapture /\ [][NextCapture]_vars

\* the list filtered
NextList == NextIn(EnvList)

SpecList == Init /\ [][NextList]_vars

(***************************************************************************)
(* What the claims speak of, stated without the operators of the model.    *)
(***************************************************************************)
\* every character of s is white space
AllWhitespace(s) == \A i \in 1..Len(s) : s[i] \in {" ", "\t", "\n", "\r"}

\* x is raw without the white space around it
IsTrimOf(x, raw) ==
    /\ x = <<>> \/ (~AllWhitespace(<<x[1]>>) /\ ~AllWhitespace(<<x[Len(x)]>>))
    /\ \E a \in 0..Len(raw) :
          /\ a + Len(x) <= Len(raw)
          /\ SubSeq(raw, a + 1, a + Len(x)) = x
          /\ AllWhitespace(SubSeq(raw, 1, a))
          /\ AllWhitespace(SubSeq(raw, a + Len(x) + 1, Len(raw)))

\* the capital letters of the model and their small letters
Capitals == { <<"A", "a">>, <<"B", "b">>, <<"W", "w">>, <<"P", "p">>, <<"N", "n">>,
              <<"G", "g">> }

\* x is y with every capital letter made small
IsLowerOf(x, y) ==
    /\ Len(x) = Len(y)
    /\ \A i \in 1..Len(y) :
          IF \E c \in Capitals : c[1] = y[i]
          THEN <<y[i], x[i]>> \in Capitals
          ELSE x[i] = y[i]

\* message box m is among msgs
Showed(msgs, m) == \E i \in 1..Len(msgs) : msgs[i] = m

(***************************************************************************)
(* C1. add_note on a note box that is empty or holds only white space      *)
(* shows the "Empty Note" warning and leaves the table as it was.          *)
(***************************************************************************)
C1_EmptyNoteWritesNothing ==
    [][(add_note(EnvNote) /\ AllWhitespace(note_text))
         => (entries' = entries /\ shown' = <<"Empty Note">>)]_vars

\* the warning was shown for a note box of white space, with rows stored
C1_Witness ==
    /\ shown = <<"Empty Note">>
    /\ note_text = <<" ">>
    /\ entries # {}

(***************************************************************************)
(* C2. As claimed: whenever add_note saves a row for a non-empty note box, *)
(* get_entry on the new id gives the content as typed, the tags as typed   *)
(* in small letters, and type note.                                        *)
(***************************************************************************)
C2_AsClaimed ==
    [][(add_note(EnvNote) /\ note_text # <<>> /\ seq' = seq + 1)
         => /\ Found(entries', seq')
            /\ get_entry(entries', seq').type = "note"
            /\ get_entry(entries', seq').content = note_text
            /\ IsLowerOf(get_entry(entries', seq').tags, tag_entry)]_vars

(***************************************************************************)
(* C2, amended. Whenever add_note saves a row, get_entry on the new id     *)
(* gives the typed content without the white space around it, the typed    *)
(* tags without the white space around them and in small letters, and      *)
(* type note; the content saved is never empty.                            *)
(***************************************************************************)
C2_RoundTripTrimmed ==
    [][(add_note(EnvNote) /\ seq' = seq + 1)
         => /\ Found(entries', seq')
            /\ get_entry(entries', seq').type = "note"
            /\ get_entry(entries', seq').content # <<>>
            /\ IsTrimOf(get_entry(entries', seq').content, note_text)
            /\ \E a \in 1..(Len(tag_entry) + 1), b \in 0..Len(tag_entry) :
                  /\ IsTrimOf(SubSeq(tag_entry, a, b), tag_entry)
                  /\ IsLowerOf(get_entry(entries', seq').tags, SubSeq(tag_entry, a, b))]_vars

\* the newest row is the note "A" tagged "w": saved from " A" and "W "
C2_Witness ==
    /\ seq >= 1
    /\ Found(entries, seq)
    /\ get_entry(entries, seq).type = "note"
    /\ get_entry(entries, seq).content = <<"A">>
    /\ get_entry(entries, seq).tags = <<"w">>
    /\ shown = <<>>

(***************************************************************************)
(* C3. As claimed: whenever add_file saves a row, the name it stored the   *)
(* copy under was not in the attachment directory before, and every file   *)
(* that was there is still there with the same bytes.                      *)
(***************************************************************************)
C3_NeverOverwrites ==
    [][(add_file(EnvFile) /\ seq' = seq + 1)
         => /\ basename(get_entry(entries', seq').filepath) \notin DOMAIN files
            /\ \A n \in DOMAIN files : n \in DOMAIN files' /\ files'[n] = files[n]]_vars

(***************************************************************************)
(* C4. When a confirmed delete_entry runs its DELETE statement without a   *)
(* database error, no row with the id is stored afterwards, and if the     *)
(* entry was a file and no error of os.remove was shown, no file exists    *)
(* at the path the row held.                                               *)
(***************************************************************************)
C4_DeletedIsGone ==
    [][(displayed # 0 /\ \E rmOk \in BOOLEAN : DeleteWith(displayed, TRUE, rmOk, TRUE))
         => /\ ~Found(entries', displayed)
            /\ (/\ Found(entries, displayed)
                /\ get_entry(entries, displayed).type = "file"
                /\ ~Showed(shown', "File Error: Failed to delete file"))
               => ~exists(get_entry(entries, displayed).filepath, files')]_vars

\* every entry saved was a file, and all were deleted with their attachments
C4_Witness ==
    /\ seq >= 1
    /\ entries = {}
    /\ files = <<>>
    /\ displayed = 0
    /\ shown = <<>>

(***************************************************************************)
(* C5. When os.remove fails in a confirmed delete_entry of a file entry    *)
(* whose attachment exists, the failure is shown and, the DELETE statement *)
(* succeeding, the row is deleted.                                         *)
(***************************************************************************)
C5_RemoveFailureDoesNotBlock ==
    [][(/\ displayed # 0
        /\ Found(entries, displayed)
        /\ get_entry(entries, displayed).type = "file"
        /\ exists(get_entry(entries, displayed).filepath, files)
        /\ DeleteWith(displayed, TRUE, FALSE, TRUE))
         => /\ Showed(shown', "File Error: Failed to delete file")
            /\ ~Found(entries', displayed)
            /\ exists(get_entry(entries, displayed).filepath, files')]_vars

\* the failure of os.remove was shown, the row is gone and the file is left
C5_Witness ==
    /\ shown = <<"File Error: Failed to delete file">>
    /\ displayed = 0
    /\ entries = {}
    /\ files # <<>>

(***************************************************************************)
(* C6. When the copy fails in add_file or in the image-path branch of      *)
(* paste_from_clipboard, the failure is shown and the table is left as it  *)
(* was.                                                                    *)
(***************************************************************************)
C6_FailedCopyWritesNoRow ==
    [][(/\ add_file(EnvFile) \/ paste_from_clipboard(EnvFile)
        /\ \E filepath \in DOMAIN ExtFiles, dbOk \in BOOLEAN :
              StoreFile(filepath, "fail", dbOk))
         => /\ entries' = entries
            /\ seq' = seq
            /\ Showed(shown', "File Error: Failed to copy file")]_vars

\* a copy failed with rows stored
C6_Witness ==
    /\ shown = <<"File Error: Failed to copy file">>
    /\ entries # {}

(***************************************************************************)
(* C7. With both filter boxes empty the list holds every stored entry      *)
(* once, and no entry comes after one with an older timestamp.             *)
(***************************************************************************)
TimestampOf(item) == get_entry(entries, item.iid).timestamp

C7_NewestFirst ==
    (AllWhitespace(search_entry) /\ AllWhitespace(tag_filter_entry))
      => /\ Len(tree) = Cardinality(entries)
         /\ { tree[i].iid : i \in 1..Len(tree) } = { r.id : r \in entries }
         /\ \A i, j \in 1..Len(tree) :
               i < j => TimestampOf(tree[i]) >= TimestampOf(tree[j])

\* the list holds entries of different seconds
C7_Witness ==
    /\ AllWhitespace(search_entry) /\ AllWhitespace(tag_filter_entry)
    /\ \E i, j \in 1..Len(tree) : i < j /\ TimestampOf(tree[i]) > TimestampOf(tree[j])

(***************************************************************************)
(* C8. As claimed: of two entries of the list with the same timestamp, the *)
(* one with the larger id comes first.                                     *)
(***************************************************************************)
C8_TiesByIdDescending ==
    \A i, j \in 1..Len(tree) :
        (i < j /\ TimestampOf(tree[i]) = TimestampOf(tree[j])) => tree[i].iid > tree[j].iid

(***************************************************************************)
(* C9. As claimed: with a search term S, every entry of the list has S in  *)
(* its content or in its description, letters compared without case.      *)
(***************************************************************************)
SameLetter(a, b) == a = b \/ <<a, b>> \in Capitals \/ <<b, a>> \in Capitals

\* s is in column x, letters compared without case; not so when x is NULL
HasNoCase(x, s) ==
    /\ x # NULL
    /\ \E i \in 0..(Len(x) - Len(s)) : \A k \in 1..Len(s) : SameLetter(x[i + k], s[k])

\* the search term: the text of the search box without the white space around it
SearchTermIs(s) == IsTrimOf(s, search_entry)

C9_SearchIsSubstring ==
    \A a \in 1..(Len(search_entry) + 1), b \in 0..Len(search_entry) :
        LET S == SubSeq(search_entry, a, b)
        IN  (SearchTermIs(S) /\ S # <<>>)
              => \A i \in 1..Len(tree) :
                    \/ HasNoCase(get_entry(entries, tree[i].iid).content, S)
                    \/ HasNoCase(get_entry(entries, tree[i].iid).description, S)

(***************************************************************************)
(* C10. As claimed: with a tag filter T, every entry of the list has T     *)
(* (as the program reads it: trimmed, in small letters) in its tags, and   *)
(* with a search term as well, every entry of the list has both.           *)
(***************************************************************************)
C10_TagFilterIsSubstring ==
    \A a \in 1..(Len(tag_filter_entry) + 1), b \in 0..Len(tag_filter_entry) :
        LET T == SubSeq(tag_filter_entry, a, b)
        IN  (IsTrimOf(T, tag_filter_entry) /\ T # <<>>)
              => \A i \in 1..Len(tree) :
                    HasNoCase(get_entry(entries, tree[i].iid).tags, T)

(***************************************************************************)
(* C11. As claimed: the preview of a note is the text before its first     *)
(* line feed, cut to 50 characters, with "..." appended exactly when the   *)
(* content has more than 50 characters or a line feed; the preview of a    *)
(* file entry is its content, the base filename.                           *)
(***************************************************************************)
\* the text of s before its first line feed
BeforeLineFeed(s) ==
    IF \E i \in 1..Len(s) : s[i] = "\n"
    THEN SubSeq(s, 1, (CHOOSE i \in 1..Len(s) :
                          s[i] = "\n" /\ \A j \in 1..(i - 1) : s[j] # "\n") - 1)
    ELSE s

\* the first 50 characters of s, or s when it is shorter
CutTo50(s) == IF Len(s) > 50 THEN SubSeq(s, 1, 50) ELSE s

\* "..." when the content is longer than 50 characters or has a line feed
Ellipsis(content) ==
    IF Len(content) > 50 \/ \E i \in 1..Len(content) : content[i] = "\n"
    THEN <<".", ".", ".">>
    ELSE <<>>

RowOf(item) == get_entry(entries, item.iid)

C11_AsClaimed ==
    \A i \in 1..Len(tree) :
        tree[i].values[3] =
            IF RowOf(tree[i]).type = "note"
            THEN CutTo50(BeforeLineFeed(RowOf(tree[i]).content))
                    \o Ellipsis(RowOf(tree[i]).content)
            ELSE RowOf(tree[i]).content

(***************************************************************************)
(* C11, amended: the preview of a note is the text before its first line   *)
(* feed with the carriage returns taken out, cut to 50 characters, with    *)
(* "..." appended exactly when the content has more than 50 characters or  *)
(* a line feed; the preview of a file entry is its content.                *)
(***************************************************************************)
\* s without its carriage returns
NoCarriageReturn(s) == SelectSeq(s, LAMBDA c : c # "\r")

C11_PreviewWithoutCarriageReturns ==
    \A i \in 1..Len(tree) :
        tree[i].values[3] =
            IF RowOf(tree[i]).type = "note"
            THEN CutTo50(NoCarriageReturn(BeforeLineFeed(RowOf(tree[i]).content)))
                    \o Ellipsis(RowOf(tree[i]).content)
            ELSE RowOf(tree[i]).content

\* the list holds a note cut to 50 characters, which the user has selected, a
\* note of two lines with a carriage return, and a file
C11_Witness ==
    \E i, j, k \in 1..Len(tree) :
        /\ displayed = tree[i].iid
        /\ Len(RowOf(tree[i]).content) = 51 /\ Len(tree[i].values[3]) = 53
        /\ RowOf(tree[j]).content = <<"A", "\r", "B", "\n", "C">>
        /\ RowOf(tree[k]).type = "file" /\ tree[k].values[3] = <<"a", ".", "p", "n", "g">>

(***************************************************************************)
(* C12. Every stored file entry has a filepath that is not NULL, lies in   *)
(* the attachment directory and is no path of an external file, and every  *)
(* stored note has the filepath NULL.                                      *)
(***************************************************************************)
C12_FilepathByKind ==
    \A r \in entries :
        /\ r.type = "file" => /\ r.filepath # NULL
                              /\ Head(r.filepath) = FILES_DIR
                              /\ r.filepath \notin DOMAIN ExtFiles
        /\ r.type = "note" => r.filepath = NULL

\* a note is stored next to a file saved from image data, or next to a copy of
\* /ext1/a.png
C12_Witness ==
    /\ \E r \in entries : r.type = "note"
    /\ \E r \in entries : r.type = "file"
    /\ files # <<>>

(***************************************************************************)
(* C14. A paste whose writes succeed does, for a clipboard with image      *)
(* data (with or without text): add exactly one file entry whose           *)
(* attachment holds the image data; for a clipboard with no image data and *)
(* a text that is the path of an existing image file, bare or in quotes:   *)
(* add exactly one file entry whose attachment holds the bytes of that     *)
(* file; for any other text: leave table and directory as they are and put *)
(* the text into the note box.                                             *)
(***************************************************************************)
\* the external image file the text is the path of, bare or in quotes; <<>>
\* when it is none
ImagePathIn(text) ==
    IF \E q \in DOMAIN ExtFiles : text = q \/ text = <<"\"">> \o q \o <<"\"">>
    THEN CHOOSE q \in DOMAIN ExtFiles : text = q \/ text = <<"\"">> \o q \o <<"\"">>
    ELSE <<>>

\* this step adds exactly one row, a file entry whose attachment holds bytes
AddsOneFile(bytes) ==
    \E r \in entries' :
        /\ entries' = entries \cup {r}
        /\ \A q \in entries : q.id # r.id
        /\ r.type = "file"
        /\ r.filepath # NULL
        /\ basename(r.filepath) \in DOMAIN files'
        /\ files'[basename(r.filepath)] = bytes

\* this step puts text into the note box and writes nothing
OnlyInserts(text) ==
    /\ entries' = entries
    /\ files' = files
    /\ seq' = seq
    /\ \E at \in 0..Len(note_text) :
          note_text' = SubSeq(note_text, 1, at) \o text \o SubSeq(note_text, at + 1, Len(note_text))

C14_ClipboardClasses ==
    [][\A clip \in EnvCapture.clips :
          (seq < MaxId /\ PasteWith(EnvCapture, clip, "ok", TRUE))
            => IF clip.image # "none"
               THEN AddsOneFile(clip.image)
               ELSE IF ImagePathIn(clip.text) # <<>>
               THEN AddsOneFile(ExtFiles[ImagePathIn(clip.text)])
               ELSE OnlyInserts(clip.text)]_vars

\* text was pasted into the empty note box, a path pasted next made a file
\* entry with that text as description, and image data made another
C14_Witness ==
    /\ Cardinality(entries) = 2
    /\ \E r \in entries : /\ r.type = "file"
                          /\ basename(r.filepath) \in DOMAIN files
                          /\ files[basename(r.filepath)] = "bytes1"
                          /\ r.description = <<"A">>
                          /\ r.tags = <<>>
    /\ \E r \in entries : /\ r.type = "file"
                          /\ basename(r.filepath) \in DOMAIN files
                          /\ files[basename(r.filepath)] = "pixels"

(***************************************************************************)
(* C13. As claimed: a confirmed delete_entry of an id that is not stored   *)
(* reports a failure and leaves table and directory as they are.           *)
(***************************************************************************)
C13_MissingIdFails ==
    [][\A entry_id \in 1..MaxId :
          (/\ ~Found(entries, entry_id)
           /\ \E rmOk, dbOk \in BOOLEAN : DeleteWith(entry_id, TRUE, rmOk, dbOk))
            => /\ shown' # <<>>
               /\ entries' = entries
               /\ files' = files]_vars

(***************************************************************************)
(* C15. As claimed: once a message box of setup_database has told the user *)
(* of a failure, the only step of the starting process is its end: the     *)
(* database is not opened, no table is made or altered, nothing is listed. *)
(***************************************************************************)
C15_StartupFailureIsFatal ==
    [][(pc \in {"connect", "load_entries"} /\ StartupFailed(shown))
         => /\ pc' = "exited"
            /\ UNCHANGED <<conn, table, entries, tree>>]_vars

(***************************************************************************)
(* C16. No step changes the kind, content, tags, filepath, description or  *)
(* timestamp of an entry that is stored before and after it; a row of an   *)
(* older database, which has no description, has the description NULL      *)
(* after the migration.                                                    *)
(***************************************************************************)
\* the description of a row; NULL for a row of a table without the column
DescriptionOf(r) == IF "description" \in DOMAIN r THEN r.description ELSE NULL

C16_EntriesImmutable ==
    [][\A r \in entries : \A q \in entries' :
          q.id = r.id
            => /\ q.type = r.type
               /\ q.content = r.content
               /\ q.tags = r.tags
               /\ q.filepath = r.filepath
               /\ q.timestamp = r.timestamp
               /\ DescriptionOf(q) = DescriptionOf(r)]_vars

\* the note of the older database is stored, migrated, next to a file saved in
\* a later second, after a third entry was saved and deleted
C16_Witness ==
    /\ pc = "mainloop"
    /\ table = "new"
    /\ seq = 3
    /\ Cardinality(entries) = 2
    /\ \E r \in entries : /\ r.id = 1
                          /\ r.type = "note"
                          /\ r.content = <<"A">>
                          /\ r.timestamp = 0
                          /\ r.description = NULL
    /\ \E r \in entries : r.id = 2 /\ r.type = "file" /\ r.timestamp = 1

(***************************************************************************)
(* C17. No two stored entries have the same id, and the id of a new entry  *)
(* is larger than every id given before (the sequence seq is never below   *)
(* a stored id, never decreases, and a new id is above it), so no id is    *)
(* given twice, whatever has been deleted.                                 *)
(***************************************************************************)
C17_IdsUniqueNeverReused ==
    /\ [](\A r, q \in entries : (r.id = q.id => r = q) /\ r.id <= seq)
    /\ [][/\ seq' >= seq
          /\ \A q \in entries' :
                (\A r \in entries : r.id # q.id) => (q.id > seq /\ q.id <= seq')]_vars

\* an entry was saved after the entry with the highest id had been deleted
C17_Witness ==
    /\ seq = 3
    /\ { r.id : r \in entries } = {1, 3}
    /\ pc = "mainloop"

(***************************************************************************)
(* C18. As claimed: no two stored file entries have the same filepath.     *)
(***************************************************************************)
C18_FilepathsUnique ==
    \A r, q \in entries :
        (r.type = "file" /\ q.type = "file" /\ r.filepath = q.filepath) => r.id = q.id

(***************************************************************************)
(* C19. As claimed: the filepath of every stored file entry names a file   *)
(* that exists in the attachment directory.                                *)
(***************************************************************************)
C19_AttachmentsExist ==
    \A r \in entries : r.type = "file" => exists(r.filepath, files)

(***************************************************************************)
(* C20. As claimed: a step of add_file or paste_from_clipboard that adds   *)
(* no row leaves the attachment directory as it was.                       *)
(***************************************************************************)
C20_FailedCreateLeavesNoFile ==
    [][((add_file(EnvDelete) \/ paste_from_clipboard(EnvDelete)) /\ entries' = entries)
         => files' = files]_vars

=============================================================================
